---- MODULE Spec2Model ----
(***************************************************************************)
(* The scheduling backend of src/server.js (third variant, lines 388-698:  *)
(* settings, employees, appointments over Mongoose models).                *)
(*                                                                         *)
(* A JSON body or a stored document is a TLA+ record whose DOMAIN is the   *)
(* set of fields that are present.  An ObjectId is a natural number; its   *)
(* string form is Hex[n].  Each collection numbers its documents in the    *)
(* order of insertion, and no route mixes the ids of two collections.      *)
(* Every route handler awaits exactly one database call except             *)
(* GET /api/settings, which awaits findOne and then save.  A handler with  *)
(* one database call reads no shared state before it and writes none after *)
(* it; the appointment writes are still split at their await, so that two  *)
(* of them can be in flight together.                                      *)
(* A JSON array sent as a response body is the record [items |-> <<...>>]. *)
(* Mongoose >= 6 is assumed: undefined keys of an update are stripped and  *)
(* schema defaults are applied on upsert.                                  *)
(***************************************************************************)
EXTENDS Integers, Sequences, FiniteSets, TLC

\* Number of appointment ObjectIds the store can hand out.
MaxAppointments == 2
\* Number of employee ObjectIds the store can hand out.
MaxEmployees == 1
\* Number of settings ObjectIds the store can hand out.
MaxSettings == 2
\* Runs of initializeEmployees that can be in flight at once.
MaxRuns == 2
\* Number of event ObjectIds the store can hand out.
MaxEvents == 2

\* Requests that can be between receipt and their database call at once.
Slots == {"r1", "r2"}

VARIABLES
    employees,          \* Employee collection: ObjectId -> document
    nextEmployeeId,     \* next ObjectId of the Employee collection
    appointments,       \* Appointment collection: ObjectId -> document
    nextAppointmentId,  \* next ObjectId of the Appointment collection
    pending,            \* slot -> appointment write awaiting its database call
    writtenSince,       \* history: slot -> appointment ids written by others
                        \*          since the slot's request was received
    settings,           \* Setting collection, in insertion (natural) order
    settingsGet,        \* slot -> position of a GET /api/settings handler
    lastResponse,       \* the response the last step sent, NoResponse if none
    readyState,         \* mongoose.connection.readyState: 0 disconnected,
                        \*   1 connected, 2 connecting, 3 disconnecting
    seeding,            \* runs of initializeEmployees awaiting countDocuments
                        \*   (counting) and awaiting insertMany (inserting)
    uniqueIndex,        \* the index of id: {unique: true} has been built
    events,             \* Event collection: ObjectId -> document
    nextEventId         \* next ObjectId of the Event collection

vars == <<employees, nextEmployeeId, appointments, nextAppointmentId, pending,
          writtenSince, settings, settingsGet, lastResponse, readyState,
          seeding, uniqueIndex, events, nextEventId>>

apptVars == <<appointments, nextAppointmentId, pending, writtenSince>>
empVars == <<employees, nextEmployeeId>>
settingsVars == <<settings, settingsGet>>
seedVars == <<seeding, uniqueIndex>>
eventVars == <<events, nextEventId>>

-----------------------------------------------------------------------------
(* Records as JSON objects *)

Put(f, k, v) == [x \in DOMAIN f \cup {k} |-> IF x = k THEN v ELSE f[x]]
Drop(f, k) == [x \in DOMAIN f \ {k} |-> f[x]]
Merge(doc, upd) ==
    [x \in DOMAIN doc \cup DOMAIN upd |-> IF x \in DOMAIN upd THEN upd[x] ELSE doc[x]]
Restrict(f, S) == [x \in DOMAIN f \cap S |-> f[x]]
Without(store, id) == [x \in DOMAIN store \ {id} |-> store[x]]
EmptyObject == [x \in {} |-> 0]

-----------------------------------------------------------------------------
(* ObjectIds and their string form *)

Hex == <<"h1", "h2", "h3", "h4">>
Malformed == "zz"

\* _id.toString()
ObjectIdToString(n) == Hex[n]

\* Mongoose's cast of a path parameter to ObjectId; 0 stands for a CastError.
CastObjectId(s) ==
    IF \E n \in DOMAIN Hex : Hex[n] = s
    THEN CHOOSE n \in DOMAIN Hex : Hex[n] = s
    ELSE 0

Response(status, body) == [status |-> status, body |-> body]
Message(text) == [message |-> text]
NoResponse == Response(0, Message(""))

\* empObj.id = empObj._id.toString()
WithId(doc, n) == Put(Put(doc, "_id", n), "id", ObjectIdToString(n))

-----------------------------------------------------------------------------
(* Request inputs *)

Monday == "2025-11-03"

\* 10:00-11:00
BodyTen ==
    [employeeId |-> "h1", date |-> Monday, startHour |-> 10, startMinute |-> 0,
     durationMinutes |-> 60, customerName |-> "Kim"]
\* 10:30-11:30, with a title of the client's own
BodyTenThirty ==
    [employeeId |-> "h1", date |-> Monday, startHour |-> 10, startMinute |-> 30,
     durationMinutes |-> 60, customerName |-> "Kim", title |-> "Cut"]
\* 23:30-00:30
BodyLate ==
    [employeeId |-> "h1", date |-> Monday, startHour |-> 23, startMinute |-> 30,
     durationMinutes |-> 60, customerName |-> "Kim"]
\* 11:00-12:00, no customerName
BodyNoName ==
    [employeeId |-> "h1", date |-> Monday, startHour |-> 11, startMinute |-> 0,
     durationMinutes |-> 60]

AppointmentBodies == {BodyTen, BodyTenThirty, BodyLate, BodyNoName}
AppointmentPutBodies == {BodyTenThirty, BodyNoName}
AppointmentPathIds == {ObjectIdToString(n) : n \in 1..MaxAppointments} \cup {Malformed}

MondayHours == [Mo |-> [enabled |-> TRUE, start |-> 9, end |-> 17]]
MondayHoliday == <<[start |-> Monday, end |-> Monday]>>

EmployeePostBodies == {[firstName |-> "Anna", color |-> "#f00"], [firstName |-> "Anna"]}
EmployeePutBodies == {[dailyHours |-> MondayHours], [holidays |-> MondayHoliday]}
EmployeePathIds == {ObjectIdToString(n) : n \in 1..MaxEmployees} \cup {Malformed}

-----------------------------------------------------------------------------
(* Mongoose schemas and validation *)

\* employeeSchema: firstName, color, dailyHours, holidays (timestamps left out)
EmployeePaths == {"firstName", "color", "dailyHours", "holidays"}

\* appointmentSchema; customerPhone, customerEmail, serviceId and the timestamps
\* are left out: no handler reads them.
AppointmentPaths ==
    {"employeeId", "title", "customerName", "startHour", "startMinute",
     "durationMinutes", "date"}
AppointmentStrings == {"employeeId", "title", "customerName", "date"}
AppointmentNumbers == {"startHour", "startMinute", "durationMinutes"}

\* required: true on a String path: present and not the empty string
RequiredString(doc, k) == k \in DOMAIN doc /\ doc[k] # ""
\* required: true on a Number path: present
RequiredNumber(doc, k) == k \in DOMAIN doc

\* validation run by newEmployee.save()
ValidEmployee(doc) == RequiredString(doc, "firstName") /\ RequiredString(doc, "color")

\* validation run by newAppointment.save(): every path of the schema is required
ValidAppointment(doc) ==
    /\ \A k \in AppointmentStrings : RequiredString(doc, k)
    /\ \A k \in AppointmentNumbers : RequiredNumber(doc, k)

\* Faulty variant: the title is taken from customerName only if the client sent none.
SyncTitleUnlessSent(body) ==
    IF "customerName" \in DOMAIN body /\ "title" \notin DOMAIN body
    THEN Put(body, "title", body.customerName)
    ELSE body

\* appointmentData.title = appointmentData.customerName
\* (an absent customerName leaves title undefined, which Mongoose strips)
SyncTitle(body) ==
    IF "customerName" \in DOMAIN body
    THEN Put(body, "title", body.customerName)
    ELSE Drop(body, "title")

\* new Appointment(appointmentData): strict mode keeps the schema's paths
NewAppointment(data) == Restrict(data, AppointmentPaths)

\* Faulty variant: the update is validated as a whole document, so that every required
\* path must be in the update.
ValidAppointmentUpdateWholeDocument(upd) == ValidAppointment(upd)

\* update validators (runValidators: true) on the paths the update sets
ValidAppointmentUpdate(upd) ==
    \A k \in DOMAIN upd \cap AppointmentStrings : upd[k] # ""

\* findByIdAndUpdate(id, appointmentData): $set of the update's schema paths
UpdatedAppointment(doc, data) == Merge(doc, Restrict(data, AppointmentPaths))

-----------------------------------------------------------------------------
(* Initial state *)

Idle == [kind |-> "idle"]

Init ==
    /\ employees = EmptyObject
    /\ nextEmployeeId = 1
    /\ appointments = EmptyObject
    /\ nextAppointmentId = 1
    /\ pending = [r \in Slots |-> Idle]
    /\ writtenSince = [r \in Slots |-> {}]
    /\ settings = <<>>
    /\ settingsGet = [r \in Slots |-> Idle]
    /\ lastResponse = NoResponse
    /\ readyState = 0
    /\ seeding = [counting |-> 0, inserting |-> 0]
    /\ uniqueIndex = FALSE
    /\ events = EmptyObject
    /\ nextEventId = 1

-----------------------------------------------------------------------------
(* Employees: app.post/put/delete('/api/employees') *)

\* Faulty variant: the response is the document overlaid with the body, so that an
\* id of the client's replaces the one of the document.
PostEmployeeEchoBody(body) ==
    LET given == Restrict(body, {"firstName", "color"})
        newEmployee == Merge(given, [dailyHours |-> EmptyObject, holidays |-> <<>>])
    IN  /\ nextEmployeeId <= MaxEmployees
        /\ IF ValidEmployee(newEmployee)
           THEN /\ employees' = Put(employees, nextEmployeeId, newEmployee)
                /\ nextEmployeeId' = nextEmployeeId + 1
                /\ lastResponse' =
                       Response(201, Merge(WithId(newEmployee, nextEmployeeId), body))
           ELSE /\ UNCHANGED empVars
                /\ lastResponse' =
                       Response(400, Message("Fehler beim Hinzufuegen des Mitarbeiters."))
        /\ UNCHANGED <<apptVars, settingsVars, readyState, seedVars, eventVars>>

PostEmployee(body) ==
    LET given == Restrict(body, {"firstName", "color"})
        newEmployee == Merge(given, [dailyHours |-> EmptyObject, holidays |-> <<>>])
    IN  /\ nextEmployeeId <= MaxEmployees
        /\ IF ValidEmployee(newEmployee)
           THEN /\ employees' = Put(employees, nextEmployeeId, newEmployee)
                /\ nextEmployeeId' = nextEmployeeId + 1
                /\ lastResponse' = Response(201, WithId(newEmployee, nextEmployeeId))
           ELSE /\ UNCHANGED empVars
                /\ lastResponse' =
                       Response(400, Message("Fehler beim Hinzufuegen des Mitarbeiters."))
        /\ UNCHANGED <<apptVars, settingsVars, readyState, seedVars, eventVars>>

PutEmployee(id, body) ==
    LET n == CastObjectId(id) IN
    /\ IF n = 0
       THEN /\ UNCHANGED empVars
            /\ lastResponse' =
                   Response(400, Message("Fehler beim Aktualisieren des Mitarbeiters."))
       ELSE IF n \notin DOMAIN employees
       THEN /\ UNCHANGED empVars
            /\ lastResponse' = Response(404, Message("Mitarbeiter nicht gefunden."))
       ELSE LET updated == Merge(employees[n], Restrict(body, EmployeePaths)) IN
            /\ employees' = [employees EXCEPT ![n] = updated]
            /\ UNCHANGED nextEmployeeId
            /\ lastResponse' = Response(200, WithId(updated, n))
    /\ UNCHANGED <<apptVars, settingsVars, readyState, seedVars, eventVars>>

\* Faulty variant: deleting an employee also deletes the appointments that name it.
DeleteEmployeeCascade(id) ==
    LET n == CastObjectId(id) IN
    /\ n \in DOMAIN employees
    /\ employees' = Without(employees, n)
    /\ appointments' =
           [a \in {x \in DOMAIN appointments : appointments[x].employeeId # id}
               |-> appointments[a]]
    /\ lastResponse' = Response(200, Message("Mitarbeiter erfolgreich geloescht."))
    /\ UNCHANGED <<nextEmployeeId, nextAppointmentId, pending, writtenSince, settingsVars,
                   readyState, seedVars, eventVars>>

DeleteEmployee(id) ==
    LET n == CastObjectId(id) IN
    /\ IF n = 0
       THEN /\ UNCHANGED empVars
            /\ lastResponse' =
                   Response(500, Message("Fehler beim Loeschen des Mitarbeiters."))
       ELSE IF n \notin DOMAIN employees
       THEN /\ UNCHANGED empVars
            /\ lastResponse' = Response(404, Message("Mitarbeiter nicht gefunden."))
       ELSE /\ employees' = Without(employees, n)
            /\ UNCHANGED nextEmployeeId
            /\ lastResponse' = Response(200, Message("Mitarbeiter erfolgreich geloescht."))
    /\ UNCHANGED <<apptVars, settingsVars, readyState, seedVars, eventVars>>

-----------------------------------------------------------------------------
(* Appointments: app.post/put/delete('/api/appointments') *)

\* History: the appointment n was written while the other requests were in flight.
NoteWrite(r, n) ==
    writtenSince' =
        [q \in Slots |->
            IF q = r \/ pending[q] = Idle THEN {} ELSE writtenSince[q] \cup {n}]

\* POST: the handler has built newAppointment and awaits save()
PostAppointmentReceive(r, body) ==
    /\ pending[r] = Idle
    /\ pending' = [pending EXCEPT ![r] =
                      [kind |-> "post", doc |-> NewAppointment(SyncTitle(body))]]
    /\ writtenSince' = [writtenSince EXCEPT ![r] = {}]
    /\ lastResponse' = NoResponse
    /\ UNCHANGED <<appointments, nextAppointmentId, empVars, settingsVars, readyState,
                   seedVars, eventVars>>

\* Faulty variant: the document is inserted before it is validated, so that an
\* invalid one is stored although the request is answered 400.
PostAppointmentSaveThenValidate(r) ==
    /\ pending[r].kind = "post"
    /\ nextAppointmentId <= MaxAppointments
    /\ pending' = [pending EXCEPT ![r] = Idle]
    /\ LET doc == pending[r].doc IN
       /\ appointments' = Put(appointments, nextAppointmentId, doc)
       /\ nextAppointmentId' = nextAppointmentId + 1
       /\ NoteWrite(r, nextAppointmentId)
       /\ lastResponse' =
              IF ValidAppointment(doc)
              THEN Response(201, WithId(doc, nextAppointmentId))
              ELSE Response(400, Message("Fehler beim Erstellen des Termins."))
    /\ UNCHANGED <<empVars, settingsVars, readyState, seedVars, eventVars>>

\* POST: save() validates and inserts; the handler responds 201 or 400
PostAppointmentSave(r) ==
    /\ pending[r].kind = "post"
    /\ nextAppointmentId <= MaxAppointments
    /\ pending' = [pending EXCEPT ![r] = Idle]
    /\ LET doc == pending[r].doc IN
       IF ValidAppointment(doc)
       THEN /\ appointments' = Put(appointments, nextAppointmentId, doc)
            /\ nextAppointmentId' = nextAppointmentId + 1
            /\ NoteWrite(r, nextAppointmentId)
            /\ lastResponse' = Response(201, WithId(doc, nextAppointmentId))
       ELSE /\ UNCHANGED <<appointments, nextAppointmentId>>
            /\ writtenSince' = [writtenSince EXCEPT ![r] = {}]
            /\ lastResponse' = Response(400, Message("Fehler beim Erstellen des Termins."))
    /\ UNCHANGED <<empVars, settingsVars, readyState, seedVars, eventVars>>

\* PUT: the handler has synchronised the title and awaits findByIdAndUpdate
PutAppointmentReceive(r, id, body) ==
    /\ pending[r] = Idle
    /\ pending' = [pending EXCEPT ![r] =
                      [kind |-> "put", id |-> id, data |-> SyncTitle(body)]]
    /\ writtenSince' = [writtenSince EXCEPT ![r] = {}]
    /\ lastResponse' = NoResponse
    /\ UNCHANGED <<appointments, nextAppointmentId, empVars, settingsVars, readyState,
                   seedVars, eventVars>>

\* PUT: findByIdAndUpdate(id, appointmentData, {new: true, runValidators: true});
\* the handler responds 200, 404 or 400
PutAppointmentUpdate(r) ==
    /\ pending[r].kind = "put"
    /\ pending' = [pending EXCEPT ![r] = Idle]
    /\ UNCHANGED nextAppointmentId
    /\ LET n == CastObjectId(pending[r].id)
           data == pending[r].data
       IN  IF n = 0 \/ ~ValidAppointmentUpdate(data)
           THEN /\ UNCHANGED appointments
                /\ writtenSince' = [writtenSince EXCEPT ![r] = {}]
                /\ lastResponse' =
                       Response(400, Message("Fehler beim Aktualisieren des Termins."))
           ELSE IF n \notin DOMAIN appointments
           THEN /\ UNCHANGED appointments
                /\ writtenSince' = [writtenSince EXCEPT ![r] = {}]
                /\ lastResponse' = Response(404, Message("Termin nicht gefunden."))
           ELSE LET updated == UpdatedAppointment(appointments[n], data) IN
                /\ appointments' = [appointments EXCEPT ![n] = updated]
                /\ NoteWrite(r, n)
                /\ lastResponse' = Response(200, WithId(updated, n))
    /\ UNCHANGED <<empVars, settingsVars, readyState, seedVars, eventVars>>

\* DELETE: findByIdAndDelete(id); the handler responds 200, 404 or 500
DeleteAppointment(id) ==
    LET n == CastObjectId(id) IN
    /\ IF n = 0
       THEN /\ UNCHANGED appointments
            /\ lastResponse' = Response(500, Message("Fehler beim Loeschen des Termins."))
       ELSE IF n \notin DOMAIN appointments
       THEN /\ UNCHANGED appointments
            /\ lastResponse' = Response(404, Message("Termin nicht gefunden."))
       ELSE /\ appointments' = Without(appointments, n)
            /\ lastResponse' = Response(200, Message("Termin erfolgreich geloescht."))
    /\ UNCHANGED <<nextAppointmentId, pending, writtenSince, empVars, settingsVars,
                   readyState, seedVars, eventVars>>

-----------------------------------------------------------------------------
(* Lists: app.get('/api/employees'), app.get('/api/appointments') *)

Least(ids) == CHOOSE n \in ids : \A m \in ids : n <= m

\* Faulty variant: findOne() in place of find(), only the oldest document is listed.
ListingOldestOnly(store, ids) ==
    IF ids = {} THEN <<>> ELSE <<WithId(store[Least(ids)], Least(ids))>>

\* find().map(doc => { obj = doc.toObject(); obj.id = obj._id.toString(); ... }):
\* the documents of ids in the order of their creation, each with its id
RECURSIVE Listing(_, _)
Listing(store, ids) ==
    IF ids = {} THEN <<>>
    ELSE LET n == Least(ids) IN <<WithId(store[n], n)>> \o Listing(store, ids \ {n})

Items(list) == [items |-> list]

\* GET /api/employees: Employee.find().sort({ createdAt: 1 })
GetEmployees ==
    /\ lastResponse' = Response(200, Items(Listing(employees, DOMAIN employees)))
    /\ UNCHANGED <<empVars, apptVars, settingsVars, readyState, seedVars, eventVars>>

\* GET /api/appointments: Appointment.find()
GetAppointments ==
    /\ lastResponse' = Response(200, Items(Listing(appointments, DOMAIN appointments)))
    /\ UNCHANGED <<empVars, apptVars, settingsVars, readyState, seedVars, eventVars>>

-----------------------------------------------------------------------------
(* Specifications of the employee and appointment routes *)

EmployeeRequest ==
    \/ \E body \in EmployeePostBodies : PostEmployee(body)
    \/ \E id \in EmployeePathIds, body \in EmployeePutBodies : PutEmployee(id, body)
    \/ \E id \in EmployeePathIds : DeleteEmployee(id)

AppointmentWrite(r) ==
    \/ \E body \in AppointmentBodies : PostAppointmentReceive(r, body)
    \/ PostAppointmentSave(r)
    \/ \E id \in AppointmentPathIds, body \in AppointmentPutBodies :
           PutAppointmentReceive(r, id, body)
    \/ PutAppointmentUpdate(r)

AppointmentDelete == \E id \in AppointmentPathIds : DeleteAppointment(id)

\* Employee and appointment routes, one appointment write in flight at a time.
Next ==
    \/ EmployeeRequest
    \/ AppointmentWrite("r1")
    \/ AppointmentDelete

Spec == Init /\ [][Next]_vars

\* Appointment routes with appointment writes in flight in every slot.
NextConcurrent ==
    \/ \E r \in Slots : AppointmentWrite(r)
    \/ AppointmentDelete

SpecConcurrent == Init /\ [][NextConcurrent]_vars

\* creating, deleting and listing records, with the appointment updates
NextRecords ==
    \/ \E body \in EmployeePostBodies : PostEmployee(body)
    \/ \E id \in EmployeePathIds : DeleteEmployee(id)
    \/ AppointmentWrite("r1")
    \/ AppointmentDelete
    \/ GetEmployees
    \/ GetAppointments

SpecRecords == Init /\ [][NextRecords]_vars

\* 23:30-00:30 for another customer, with the first customer's name as the title
BodyLateLee ==
    [employeeId |-> "h1", date |-> Monday, startHour |-> 23, startMinute |-> 30,
     durationMinutes |-> 60, customerName |-> "Lee", title |-> "Kim"]

\* bodies that include customerName, most of them with a title of the client's own
NamedPostBodies == {BodyTen, BodyTenThirty, BodyLateLee}
NamedPutBodies ==
    {BodyTenThirty, [customerName |-> "Lee", title |-> "Cut"], [customerName |-> "Lee"]}

\* the appointment writes whose bodies include customerName, and the list
NextTitles ==
    \/ \E body \in NamedPostBodies : PostAppointmentReceive("r1", body)
    \/ PostAppointmentSave("r1")
    \/ \E id \in AppointmentPathIds, body \in NamedPutBodies :
           PutAppointmentReceive("r1", id, body)
    \/ PutAppointmentUpdate("r1")
    \/ GetAppointments

SpecTitles == Init /\ [][NextTitles]_vars

-----------------------------------------------------------------------------
(* Settings: app.get/post('/api/settings') *)

WorkDay(on) == [enabled |-> on, start |-> 9, end |-> 18]

DEFAULT_SETTINGS ==
    [calendarName |-> "Team-Planungsuebersicht",
     dailyHours |-> [So |-> WorkDay(FALSE), Mo |-> WorkDay(TRUE), Di |-> WorkDay(TRUE),
                     Mi |-> WorkDay(TRUE), Do |-> WorkDay(TRUE), Fr |-> WorkDay(TRUE),
                     Sa |-> WorkDay(FALSE)],
     services |-> <<[id |-> "default-1", name |-> "Herrenhaarschnitt", durationMinutes |-> 30],
                    [id |-> "default-2", name |-> "Damen-Coloration", durationMinutes |-> 120]>>,
     holidays |-> <<>>]

\* settingsSchema: every path defaults to its DEFAULT_SETTINGS value
SettingPaths == {"calendarName", "dailyHours", "services", "holidays"}
SettingDefaults == Restrict(DEFAULT_SETTINGS, SettingPaths)

SettingsBodies == {[calendarName |-> "Salon"], [holidays |-> MondayHoliday]}

\* new Setting(values): the schema's paths of values, defaults for the rest
NewSetting(values) == Merge(SettingDefaults, Restrict(values, SettingPaths))

\* Faulty variant: findOne returns the document stored last.
FindOneSettingNewest == settings[Len(settings)]

\* Setting.findOne(): the first document in natural order
FindOneSetting == Head(settings)

\* the stored fields of a settings document, without its _id
Content(doc) == Drop(doc, "_id")

\* GET: await Setting.findOne(); without a document the handler builds the defaults
GetSettingsFindOne(r) ==
    /\ settingsGet[r] = Idle
    /\ settingsGet' = [settingsGet EXCEPT ![r] =
                          IF settings = <<>>
                          THEN [kind |-> "save", doc |-> NewSetting(DEFAULT_SETTINGS)]
                          ELSE [kind |-> "respond", doc |-> FindOneSetting]]
    /\ lastResponse' = NoResponse
    /\ UNCHANGED <<settings, empVars, apptVars, readyState, seedVars, eventVars>>

\* GET: await settings.save() inserts the document the handler built
GetSettingsSave(r) ==
    /\ settingsGet[r].kind = "save"
    /\ Len(settings) < MaxSettings
    /\ LET saved == Put(settingsGet[r].doc, "_id", Len(settings) + 1) IN
       /\ settings' = Append(settings, saved)
       /\ settingsGet' = [settingsGet EXCEPT ![r] = [kind |-> "respond", doc |-> saved]]
    /\ lastResponse' = NoResponse
    /\ UNCHANGED <<empVars, apptVars, readyState, seedVars, eventVars>>

\* GET: res.status(200).json(settings)
GetSettingsRespond(r) ==
    /\ settingsGet[r].kind = "respond"
    /\ lastResponse' = Response(200, settingsGet[r].doc)
    /\ settingsGet' = [settingsGet EXCEPT ![r] = Idle]
    /\ UNCHANGED <<settings, empVars, apptVars, readyState, seedVars, eventVars>>

\* the update findOneAndUpdate applies: $set of the body's schema paths
UpdatedSetting(doc, body) == Merge(doc, Restrict(body, SettingPaths))

\* POST: Setting.findOneAndUpdate({}, req.body, {new: true, upsert: true, ...})
PostSettings(body) ==
    /\ IF settings = <<>>
       THEN LET inserted == Put(UpdatedSetting(SettingDefaults, body), "_id", 1) IN
            /\ settings' = <<inserted>>
            /\ lastResponse' = Response(200, inserted)
       ELSE LET updated == UpdatedSetting(FindOneSetting, body) IN
            /\ settings' = [settings EXCEPT ![1] = updated]
            /\ lastResponse' = Response(200, updated)
    /\ UNCHANGED <<settingsGet, empVars, apptVars, readyState, seedVars, eventVars>>

NextSettings ==
    \/ \E r \in Slots : GetSettingsFindOne(r)
    \/ \E r \in Slots : GetSettingsSave(r)
    \/ \E r \in Slots : GetSettingsRespond(r)
    \/ \E body \in SettingsBodies : PostSettings(body)

SpecSettings == Init /\ [][NextSettings]_vars

-----------------------------------------------------------------------------
(* Storage failures: the awaited database call rejects, without effect on the *)
(* collection, and the handler's catch block responds                         *)

\* POST /api/employees: save() rejects
PostEmployeeFails ==
    /\ lastResponse' = Response(400, Message("Fehler beim Hinzufuegen des Mitarbeiters."))
    /\ UNCHANGED <<empVars, apptVars, settingsVars, readyState, seedVars, eventVars>>

\* PUT /api/employees/:id: findByIdAndUpdate rejects
PutEmployeeFails ==
    /\ lastResponse' = Response(400, Message("Fehler beim Aktualisieren des Mitarbeiters."))
    /\ UNCHANGED <<empVars, apptVars, settingsVars, readyState, seedVars, eventVars>>

\* DELETE /api/employees/:id: findByIdAndDelete rejects
DeleteEmployeeFails ==
    /\ lastResponse' = Response(500, Message("Fehler beim Loeschen des Mitarbeiters."))
    /\ UNCHANGED <<empVars, apptVars, settingsVars, readyState, seedVars, eventVars>>

\* GET /api/employees: find() rejects
GetEmployeesFails ==
    /\ lastResponse' = Response(500, Message("Fehler beim Laden der Mitarbeiter."))
    /\ UNCHANGED <<empVars, apptVars, settingsVars, readyState, seedVars, eventVars>>

\* GET /api/appointments: find() rejects
GetAppointmentsFails ==
    /\ lastResponse' = Response(500, Message("Fehler beim Laden der Termine."))
    /\ UNCHANGED <<empVars, apptVars, settingsVars, readyState, seedVars, eventVars>>

\* Faulty variant: save() is not awaited, the handler has answered 201 with the
\* document when the insert is rejected.
PostAppointmentSaveUnawaited(r) ==
    /\ pending[r].kind = "post"
    /\ pending' = [pending EXCEPT ![r] = Idle]
    /\ writtenSince' = [writtenSince EXCEPT ![r] = {}]
    /\ lastResponse' = Response(201, WithId(pending[r].doc, nextAppointmentId))
    /\ UNCHANGED <<appointments, nextAppointmentId, empVars, settingsVars, readyState,
                   seedVars, eventVars>>

\* POST /api/appointments: save() rejects
PostAppointmentSaveFails(r) ==
    /\ pending[r].kind = "post"
    /\ pending' = [pending EXCEPT ![r] = Idle]
    /\ writtenSince' = [writtenSince EXCEPT ![r] = {}]
    /\ lastResponse' = Response(400, Message("Fehler beim Erstellen des Termins."))
    /\ UNCHANGED <<appointments, nextAppointmentId, empVars, settingsVars, readyState,
                   seedVars, eventVars>>

\* PUT /api/appointments/:id: findByIdAndUpdate rejects
PutAppointmentUpdateFails(r) ==
    /\ pending[r].kind = "put"
    /\ pending' = [pending EXCEPT ![r] = Idle]
    /\ writtenSince' = [writtenSince EXCEPT ![r] = {}]
    /\ lastResponse' = Response(400, Message("Fehler beim Aktualisieren des Termins."))
    /\ UNCHANGED <<appointments, nextAppointmentId, empVars, settingsVars, readyState,
                   seedVars, eventVars>>

\* DELETE /api/appointments/:id: findByIdAndDelete rejects
DeleteAppointmentFails ==
    /\ lastResponse' = Response(500, Message("Fehler beim Loeschen des Termins."))
    /\ UNCHANGED <<empVars, apptVars, settingsVars, readyState, seedVars, eventVars>>

\* GET /api/settings: findOne() rejects
GetSettingsFindOneFails(r) ==
    /\ settingsGet[r] = Idle
    /\ lastResponse' = Response(500, Message("Fehler beim Laden der Einstellungen."))
    /\ UNCHANGED <<settingsVars, empVars, apptVars, readyState, seedVars, eventVars>>

\* Faulty variant: the catch block only logs, the request is never answered.
GetSettingsSaveFailsSilently(r) ==
    /\ settingsGet[r].kind = "save"
    /\ settingsGet' = [settingsGet EXCEPT ![r] = [kind |-> "unanswered"]]
    /\ lastResponse' = NoResponse
    /\ UNCHANGED <<settings, empVars, apptVars, readyState, seedVars, eventVars>>

\* GET /api/settings: settings.save() rejects
GetSettingsSaveFails(r) ==
    /\ settingsGet[r].kind = "save"
    /\ settingsGet' = [settingsGet EXCEPT ![r] = Idle]
    /\ lastResponse' = Response(500, Message("Fehler beim Laden der Einstellungen."))
    /\ UNCHANGED <<settings, empVars, apptVars, readyState, seedVars, eventVars>>

AppointmentWriteFails(r) ==
    \/ PostAppointmentSaveFails(r)
    \/ PutAppointmentUpdateFails(r)

StorageFailure ==
    \/ PostEmployeeFails
    \/ PutEmployeeFails
    \/ DeleteEmployeeFails
    \/ GetEmployeesFails
    \/ GetAppointmentsFails
    \/ AppointmentWriteFails("r1")
    \/ DeleteAppointmentFails

\* the routes that create or change a record, over a database whose calls can reject
NextStorage ==
    \/ \E body \in EmployeePostBodies : PostEmployee(body)
    \/ AppointmentWrite("r1")
    \/ AppointmentDelete
    \/ GetAppointments
    \/ StorageFailure

SpecStorage == Init /\ [][NextStorage]_vars

-----------------------------------------------------------------------------
(* The handlers that await: every database call resolves or rejects *)

SettingsGet(r) ==
    \/ GetSettingsFindOne(r)
    \/ GetSettingsSave(r)
    \/ GetSettingsRespond(r)

SettingsGetFails(r) ==
    \/ GetSettingsFindOneFails(r)
    \/ GetSettingsSaveFails(r)

\* the awaited call of slot r's appointment write resolves or rejects
AppointmentCallSettles(r) ==
    \/ PostAppointmentSave(r)
    \/ PutAppointmentUpdate(r)
    \/ AppointmentWriteFails(r)

\* slot r's GET /api/settings goes on after findOne
SettingsCallSettles(r) ==
    \/ GetSettingsSave(r)
    \/ GetSettingsSaveFails(r)
    \/ GetSettingsRespond(r)

NextLive ==
    \/ AppointmentWrite("r1")
    \/ AppointmentWriteFails("r1")
    \/ SettingsGet("r1")
    \/ SettingsGetFails("r1")

SpecLive ==
    /\ Init
    /\ [][NextLive]_vars
    /\ WF_vars(AppointmentCallSettles("r1"))
    /\ WF_vars(SettingsCallSettles("r1"))

-----------------------------------------------------------------------------
(* The variants with a connection guard: src/server.js, lines 172-386, over    *)
(* its own Appointment and Employee models, and the placeholder routes of      *)
(* src/unnamed/part_000, lines 49-86.  Neither calls mongoose.disconnect, so   *)
(* readyState 3 is not reached.                                                *)

ErrorBody(text) == [error |-> text]
NotConnected == Response(503, ErrorBody("Datenbank ist nicht verbunden."))

\* mongoose.connect(mongoUri), and the driver's later attempts to reconnect
Connect ==
    /\ readyState = 0
    /\ readyState' = 2
    /\ lastResponse' = NoResponse
    /\ UNCHANGED <<empVars, apptVars, settingsVars, seedVars, eventVars>>

\* the connection is established: the 'connected' listener initializeEmployees
\* passes its readyState test and awaits Employee.countDocuments()
Connected ==
    /\ readyState = 2
    /\ seeding.counting + seeding.inserting < MaxRuns
    /\ readyState' = 1
    /\ seeding' = [seeding EXCEPT !.counting = @ + 1]
    /\ lastResponse' = NoResponse
    /\ UNCHANGED <<empVars, apptVars, settingsVars, uniqueIndex, eventVars>>

\* the attempt fails (.catch(err => console.error(...))), or the connection is lost
ConnectionLost ==
    /\ readyState \in {1, 2}
    /\ readyState' = 0
    /\ lastResponse' = NoResponse
    /\ UNCHANGED <<empVars, apptVars, settingsVars, seedVars, eventVars>>

\* the documents initializeEmployees inserts
InitialEmployees ==
    LET Week(from, to) == [d \in {"Mon", "Tue", "Wed", "Thu", "Fri"} |->
                              [start |-> from, end |-> to]]
    IN  <<[id |-> "e1", name |-> "Max Mustermann", dailyHours |-> Week(9, 17)],
          [id |-> "e2", name |-> "Erika Musterfrau", dailyHours |-> Week(10, 18)]>>

\* two documents of the collection carry the same id
DuplicateId(store) ==
    \E a, b \in DOMAIN store : a # b /\ store[a].id = store[b].id

\* Employee.insertMany(docs): the documents are inserted in their order; with the
\* unique index built, the first document whose id is stored ends the insert
RECURSIVE InsertMany(_, _, _, _)
InsertMany(store, next, docs, unique) ==
    IF docs = <<>> THEN store
    ELSE IF unique /\ \E n \in DOMAIN store : store[n].id = Head(docs).id
    THEN store
    ELSE InsertMany(Put(store, next, Head(docs)), next + 1, Tail(docs), unique)

\* mongoose.model('Employee', EmployeeSchema): once connected, autoIndex builds the
\* index of id: {unique: true}; the build fails over stored duplicates
EmployeeIndexBuilt ==
    /\ readyState = 1
    /\ ~uniqueIndex
    /\ ~DuplicateId(employees)
    /\ uniqueIndex' = TRUE
    /\ lastResponse' = NoResponse
    /\ UNCHANGED <<empVars, apptVars, settingsVars, readyState, seeding, eventVars>>

\* initializeEmployees: countDocuments() resolves; if (count === 0) the run goes on
\* to insertMany, else it ends
SeedCount ==
    /\ readyState = 1
    /\ seeding.counting > 0
    /\ seeding' = IF Cardinality(DOMAIN employees) = 0
                  THEN [counting |-> seeding.counting - 1,
                        inserting |-> seeding.inserting + 1]
                  ELSE [seeding EXCEPT !.counting = @ - 1]
    /\ lastResponse' = NoResponse
    /\ UNCHANGED <<empVars, apptVars, settingsVars, readyState, uniqueIndex, eventVars>>

\* initializeEmployees: insertMany([e1, e2]) resolves, or rejects with a duplicate
\* key error that the catch block logs
SeedInsert ==
    /\ readyState = 1
    /\ seeding.inserting > 0
    /\ seeding' = [seeding EXCEPT !.inserting = @ - 1]
    /\ employees' = InsertMany(employees, nextEmployeeId, InitialEmployees, uniqueIndex)
    /\ nextEmployeeId' = nextEmployeeId + Cardinality(DOMAIN employees')
                                        - Cardinality(DOMAIN employees)
    /\ lastResponse' = NoResponse
    /\ UNCHANGED <<apptVars, settingsVars, readyState, uniqueIndex, eventVars>>

\* initializeEmployees: the awaited call rejects (buffering timeout, connection
\* error) and the catch block logs
SeedCallRejects ==
    /\ seeding.counting + seeding.inserting > 0
    /\ \/ /\ seeding.counting > 0
          /\ seeding' = [seeding EXCEPT !.counting = @ - 1]
       \/ /\ seeding.inserting > 0
          /\ seeding' = [seeding EXCEPT !.inserting = @ - 1]
    /\ lastResponse' = NoResponse
    /\ UNCHANGED <<empVars, apptVars, settingsVars, readyState, uniqueIndex, eventVars>>

\* the steps of the runs of initializeEmployees, and of the index build
Seeding ==
    \/ EmployeeIndexBuilt
    \/ SeedCount
    \/ SeedInsert
    \/ SeedCallRejects

GuardedAppointmentPaths == {"employeeId", "date", "startHour", "endHour", "title", "details"}

GuardedPostBodies ==
    {[employeeId |-> "e1", date |-> Monday, startHour |-> 10, endHour |-> 11],
     [employeeId |-> "e1", date |-> Monday, startHour |-> 10, title |-> "Meeting"]}
GuardedPutBodies == {[title |-> "Meeting"], [employeeId |-> ""]}

\* new Appointment(req.body): the schema's paths, title defaults to "Termin"
NewGuardedAppointment(body) ==
    LET doc == Restrict(body, GuardedAppointmentPaths) IN
    IF "title" \in DOMAIN doc THEN doc ELSE Put(doc, "title", "Termin")

ValidGuardedAppointment(doc) ==
    /\ \A k \in {"employeeId", "date"} : RequiredString(doc, k)
    /\ \A k \in {"startHour", "endHour"} : RequiredNumber(doc, k)

\* res.json(documents): the documents of the collection, each with its _id
RECURSIVE Documents(_, _)
Documents(store, ids) ==
    IF ids = {} THEN <<>>
    ELSE LET n == Least(ids) IN <<Put(store[n], "_id", n)>> \o Documents(store, ids \ {n})

\* GET /api/appointments
GuardedGetAppointments ==
    /\ lastResponse' =
           IF readyState # 1 THEN NotConnected
           ELSE Response(200, Items(Documents(appointments, DOMAIN appointments)))
    /\ UNCHANGED <<empVars, apptVars, settingsVars, readyState, seedVars, eventVars>>

\* POST /api/appointments
GuardedPostAppointment(body) ==
    /\ nextAppointmentId <= MaxAppointments
    /\ LET doc == NewGuardedAppointment(body) IN
       IF readyState # 1
       THEN /\ lastResponse' = NotConnected
            /\ UNCHANGED <<appointments, nextAppointmentId>>
       ELSE IF ValidGuardedAppointment(doc)
       THEN /\ appointments' = Put(appointments, nextAppointmentId, doc)
            /\ nextAppointmentId' = nextAppointmentId + 1
            /\ lastResponse' = Response(201, Put(doc, "_id", nextAppointmentId))
       ELSE /\ lastResponse' = Response(400, ErrorBody("Fehler beim Erstellen des Termins"))
            /\ UNCHANGED <<appointments, nextAppointmentId>>
    /\ UNCHANGED <<empVars, pending, writtenSince, settingsVars, readyState,
                   seedVars, eventVars>>

\* PUT /api/appointments/:id
GuardedPutAppointment(id, body) ==
    /\ LET n == CastObjectId(id)
           upd == Restrict(body, GuardedAppointmentPaths)
       IN  IF readyState # 1
           THEN /\ lastResponse' = NotConnected
                /\ UNCHANGED appointments
           ELSE IF n = 0 \/ \E k \in DOMAIN upd \cap {"employeeId", "date"} : upd[k] = ""
           THEN /\ lastResponse' =
                       Response(400, ErrorBody("Fehler beim Aktualisieren des Termins"))
                /\ UNCHANGED appointments
           ELSE IF n \notin DOMAIN appointments
           THEN /\ lastResponse' = Response(404, ErrorBody("Termin nicht gefunden."))
                /\ UNCHANGED appointments
           ELSE /\ appointments' = [appointments EXCEPT ![n] = Merge(@, upd)]
                /\ lastResponse' = Response(200, Put(Merge(appointments[n], upd), "_id", n))
    /\ UNCHANGED <<empVars, nextAppointmentId, pending, writtenSince, settingsVars,
                   readyState, seedVars, eventVars>>

\* DELETE /api/appointments/:id
GuardedDeleteAppointment(id) ==
    /\ LET n == CastObjectId(id) IN
       IF readyState # 1
       THEN /\ lastResponse' = NotConnected
            /\ UNCHANGED appointments
       ELSE IF n = 0
       THEN /\ lastResponse' =
                   Response(500, ErrorBody("Datenbankfehler beim Loeschen des Termins."))
            /\ UNCHANGED appointments
       ELSE IF n \notin DOMAIN appointments
       THEN /\ lastResponse' = Response(404, ErrorBody("Termin nicht gefunden."))
            /\ UNCHANGED appointments
       ELSE /\ appointments' = Without(appointments, n)
            /\ lastResponse' = Response(204, EmptyObject)
    /\ UNCHANGED <<empVars, nextAppointmentId, pending, writtenSince, settingsVars,
                   readyState, seedVars, eventVars>>

\* GET /api/employees
GuardedGetEmployees ==
    /\ lastResponse' =
           IF readyState # 1 THEN NotConnected
           ELSE Response(200, Items(Documents(employees, DOMAIN employees)))
    /\ UNCHANGED <<empVars, apptVars, settingsVars, readyState, seedVars, eventVars>>

PlaceholderEmployees ==
    <<[id |-> "e1", name |-> "Max Mustermann",
       dailyHours |-> [Mon |-> [start |-> 9, end |-> 17]]],
      [id |-> "e2", name |-> "Erika Musterfrau",
       dailyHours |-> [Tue |-> [start |-> 10, end |-> 18]]]>>

\* part_000, GET /api/employees: if (!mongoose.connection.readyState) 503, else
\* the placeholder data
PlaceholderGetEmployees ==
    /\ lastResponse' =
           IF readyState = 0 THEN NotConnected
           ELSE Response(200, Items(PlaceholderEmployees))
    /\ UNCHANGED <<empVars, apptVars, settingsVars, readyState, seedVars, eventVars>>

\* part_000, GET /api/appointments: the same guard, else an empty array
PlaceholderGetAppointments ==
    /\ lastResponse' =
           IF readyState = 0 THEN NotConnected
           ELSE Response(200, Items(<<>>))
    /\ UNCHANGED <<empVars, apptVars, settingsVars, readyState, seedVars, eventVars>>

\* a request to a route of src/server.js, lines 277-360
GuardedRequest ==
    \/ GuardedGetAppointments
    \/ \E body \in GuardedPostBodies : GuardedPostAppointment(body)
    \/ \E id \in AppointmentPathIds, body \in GuardedPutBodies :
           GuardedPutAppointment(id, body)
    \/ \E id \in AppointmentPathIds : GuardedDeleteAppointment(id)
    \/ GuardedGetEmployees

\* a request to a route of part_000, lines 49-86
PlaceholderRequest ==
    \/ PlaceholderGetEmployees
    \/ PlaceholderGetAppointments

NextGuard ==
    \/ Connect
    \/ Connected
    \/ ConnectionLost
    \/ Seeding
    \/ GuardedRequest
    \/ PlaceholderRequest

SpecGuard == Init /\ [][NextGuard]_vars

-----------------------------------------------------------------------------
(* The events server of src/unnamed/part_001: app.post and app.delete of     *)
(* /api/events over the Event model.  createdAt, which no route reads, is    *)
(* left out of the documents.                                                *)

\* eventSchema: the paths a body can set
EventPaths == {"title", "userId", "date", "startTime", "endTime"}

\* eventSchema: required: true on every String path
ValidEvent(doc) == \A k \in EventPaths : RequiredString(doc, k)

\* runValidators: true: the validators of the paths the update sets
ValidEventUpdate(upd) == \A k \in DOMAIN upd : upd[k] # ""

\* res.json(event): the document with its _id
EventJson(doc, n) == Put(doc, "_id", n)

Standup ==
    [title |-> "Standup", userId |-> "u1", date |-> Monday,
     startTime |-> "09:00", endTime |-> "09:30"]

\* request bodies without an _id
EventCreateBodies ==
    {Standup, Drop(Standup, "endTime"), Put(Standup, "color", "red")}

\* request bodies with an _id
EventUpdateBodies ==
    UNION {{[_id |-> id, title |-> "Retro"],
            [_id |-> id, title |-> ""],
            Put(Put(Standup, "_id", id), "endTime", "10:00")}
           : id \in {Hex[1], Hex[2], Malformed}}

EventPostBodies == EventCreateBodies \cup EventUpdateBodies
EventPathIds == {Hex[1], Hex[2], Malformed}

\* new Event(eventData); await newEvent.save()
CreateEvent(body) ==
    LET doc == Restrict(body, EventPaths) IN
    IF ValidEvent(doc)
    THEN /\ nextEventId <= MaxEvents
         /\ events' = Put(events, nextEventId, doc)
         /\ nextEventId' = nextEventId + 1
         /\ lastResponse' = Response(201, EventJson(doc, nextEventId))
    ELSE /\ UNCHANGED eventVars
         /\ lastResponse' = Response(400,
                Message("Fehlerhafte Anfrage beim Erstellen: Event validation failed"))

\* Faulty variant: the update is an upsert, an _id that matches no event creates one.
PostEventUpsert(body) ==
    /\ IF "_id" \in DOMAIN body /\ body._id # ""
       THEN LET n == CastObjectId(body._id)
                upd == Restrict(body, EventPaths)
            IN  IF n = 0 \/ ~ValidEventUpdate(upd)
                THEN /\ UNCHANGED eventVars
                     /\ lastResponse' =
                            Response(400, Message("Fehlerhafte Anfrage beim Aktualisieren"))
                ELSE /\ events' = Put(events, n, IF n \in DOMAIN events
                                                 THEN Merge(events[n], upd) ELSE upd)
                     /\ UNCHANGED nextEventId
                     /\ lastResponse' = Response(200, EventJson(events'[n], n))
       ELSE CreateEvent(body)
    /\ UNCHANGED <<empVars, apptVars, settingsVars, readyState, seedVars>>

\* app.post('/api/events')
PostEvent(body) ==
    /\ IF "_id" \in DOMAIN body /\ body._id # ""
       THEN LET n == CastObjectId(body._id)
                upd == Restrict(body, EventPaths)
            IN  IF n = 0 \/ ~ValidEventUpdate(upd)
                THEN /\ UNCHANGED eventVars
                     /\ lastResponse' =
                            Response(400, Message("Fehlerhafte Anfrage beim Aktualisieren"))
                ELSE IF n \notin DOMAIN events
                THEN /\ UNCHANGED eventVars
                     /\ lastResponse' =
                            Response(404, Message("Event zur Aktualisierung nicht gefunden"))
                ELSE /\ events' = [events EXCEPT ![n] = Merge(@, upd)]
                     /\ UNCHANGED nextEventId
                     /\ lastResponse' = Response(200, EventJson(events'[n], n))
       ELSE CreateEvent(body)
    /\ UNCHANGED <<empVars, apptVars, settingsVars, readyState, seedVars>>

\* app.delete('/api/events/:id')
DeleteEvent(id) ==
    LET n == CastObjectId(id) IN
    /\ IF n = 0
       THEN /\ UNCHANGED eventVars
            /\ lastResponse' = Response(500, Message("Interner Serverfehler beim Löschen"))
       ELSE IF n \notin DOMAIN events
       THEN /\ UNCHANGED eventVars
            /\ lastResponse' = Response(404, Message("Event zum Löschen nicht gefunden"))
       ELSE /\ events' = Without(events, n)
            /\ UNCHANGED nextEventId
            /\ lastResponse' = Response(204, EmptyObject)
    /\ UNCHANGED <<empVars, apptVars, settingsVars, readyState, seedVars>>

NextEvents ==
    \/ \E body \in EventPostBodies : PostEvent(body)
    \/ \E id \in EventPathIds : DeleteEvent(id)

SpecEvents == Init /\ [][NextEvents]_vars

-----------------------------------------------------------------------------
(* The router of src/unnamed/part_000, lines 131-372: the list, create and   *)
(* update routes of /employees and /appointments.  Each handler awaits one   *)
(* database call.  The id virtual of a document is taken to have no setter,  *)
(* so that strict mode drops an id of the body.                              *)

\* AppointmentSchema of the router
RouterAppointmentPaths ==
    AppointmentPaths \cup {"customerPhone", "customerEmail", "serviceId"}

\* validation run by save(): title and the contact paths are not required
ValidRouterAppointment(doc) ==
    /\ \A k \in {"employeeId", "customerName", "date"} : RequiredString(doc, k)
    /\ \A k \in AppointmentNumbers : RequiredNumber(doc, k)

\* if (data.customerName && !data.title) data.title = data.customerName
RouterTitle(data) ==
    IF /\ "customerName" \in DOMAIN data /\ data.customerName # ""
       /\ ("title" \in DOMAIN data => data.title = "")
    THEN Put(data, "title", data.customerName)
    ELSE data

\* router.get('/employees')
RouterGetEmployees ==
    /\ lastResponse' = Response(200, Items(Listing(employees, DOMAIN employees)))
    /\ UNCHANGED <<empVars, apptVars, settingsVars, readyState, seedVars, eventVars>>

\* router.post('/employees')
RouterPostEmployee(body) ==
    LET newEmployee == Merge([dailyHours |-> EmptyObject, holidays |-> <<>>],
                             Restrict(body, EmployeePaths))
    IN  /\ nextEmployeeId <= MaxEmployees
        /\ IF ValidEmployee(newEmployee)
           THEN /\ employees' = Put(employees, nextEmployeeId, newEmployee)
                /\ nextEmployeeId' = nextEmployeeId + 1
                /\ lastResponse' = Response(201, WithId(newEmployee, nextEmployeeId))
           ELSE /\ UNCHANGED empVars
                /\ lastResponse' = Response(400, Message("Employee validation failed"))
        /\ UNCHANGED <<apptVars, settingsVars, readyState, seedVars, eventVars>>

\* router.put('/employees/:id')
RouterPutEmployee(id, body) ==
    LET n == CastObjectId(id) IN
    /\ IF n = 0
       THEN /\ UNCHANGED empVars
            /\ lastResponse' = Response(400, Message("Cast to ObjectId failed"))
       ELSE IF n \notin DOMAIN employees
       THEN /\ UNCHANGED empVars
            /\ lastResponse' = Response(404, Message("Mitarbeiter nicht gefunden"))
       ELSE LET updated == Merge(employees[n], Restrict(body, EmployeePaths)) IN
            /\ employees' = [employees EXCEPT ![n] = updated]
            /\ UNCHANGED nextEmployeeId
            /\ lastResponse' = Response(200, WithId(updated, n))
    /\ UNCHANGED <<apptVars, settingsVars, readyState, seedVars, eventVars>>

\* router.get('/appointments')
RouterGetAppointments ==
    /\ lastResponse' = Response(200, Items(Listing(appointments, DOMAIN appointments)))
    /\ UNCHANGED <<empVars, apptVars, settingsVars, readyState, seedVars, eventVars>>

\* router.post('/appointments')
RouterPostAppointment(body) ==
    LET doc == Restrict(RouterTitle(body), RouterAppointmentPaths) IN
    /\ nextAppointmentId <= MaxAppointments
    /\ IF ValidRouterAppointment(doc)
       THEN /\ appointments' = Put(appointments, nextAppointmentId, doc)
            /\ nextAppointmentId' = nextAppointmentId + 1
            /\ lastResponse' = Response(201, WithId(doc, nextAppointmentId))
       ELSE /\ UNCHANGED <<appointments, nextAppointmentId>>
            /\ lastResponse' = Response(400, Message("Appointment validation failed"))
    /\ UNCHANGED <<pending, writtenSince, empVars, settingsVars, readyState, seedVars,
                   eventVars>>

\* router.put('/appointments/:id')
RouterPutAppointment(id, body) ==
    LET n == CastObjectId(id) IN
    /\ IF n = 0
       THEN /\ UNCHANGED appointments
            /\ lastResponse' = Response(400, Message("Cast to ObjectId failed"))
       ELSE IF n \notin DOMAIN appointments
       THEN /\ UNCHANGED appointments
            /\ lastResponse' = Response(404, Message("Termin nicht gefunden"))
       ELSE LET updated == Merge(appointments[n],
                                 Restrict(RouterTitle(body), RouterAppointmentPaths))
            IN  /\ appointments' = [appointments EXCEPT ![n] = updated]
                /\ lastResponse' = Response(200, WithId(updated, n))
    /\ UNCHANGED <<nextAppointmentId, pending, writtenSince, empVars, settingsVars,
                   readyState, seedVars, eventVars>>

\* request bodies that carry an id of the client's own
IdEmployeePostBodies ==
    {[firstName |-> "Anna", color |-> "#f00", id |-> i] : i \in {Malformed, Hex[2]}}
IdEmployeePutBodies == {[dailyHours |-> MondayHours, id |-> Hex[2]]}
IdAppointmentPostBodies == {Put(BodyTen, "id", i) : i \in {Malformed, Hex[2]}}
IdAppointmentPutBodies == {[startHour |-> 11, id |-> Hex[2]]}

\* the list, create and update routes of src/server.js (third variant)
ServerRecordRoutes ==
    \/ GetEmployees
    \/ \E body \in IdEmployeePostBodies : PostEmployee(body)
    \/ \E id \in EmployeePathIds, body \in IdEmployeePutBodies : PutEmployee(id, body)
    \/ GetAppointments
    \/ \E body \in IdAppointmentPostBodies : PostAppointmentReceive("r1", body)
    \/ PostAppointmentSave("r1")
    \/ \E id \in AppointmentPathIds, body \in IdAppointmentPutBodies :
           PutAppointmentReceive("r1", id, body)
    \/ PutAppointmentUpdate("r1")

\* the list, create and update routes of the router
RouterRecordRoutes ==
    \/ RouterGetEmployees
    \/ \E body \in IdEmployeePostBodies : RouterPostEmployee(body)
    \/ \E id \in EmployeePathIds, body \in IdEmployeePutBodies :
           RouterPutEmployee(id, body)
    \/ RouterGetAppointments
    \/ \E body \in IdAppointmentPostBodies : RouterPostAppointment(body)
    \/ \E id \in AppointmentPathIds, body \in IdAppointmentPutBodies :
           RouterPutAppointment(id, body)

NextIds ==
    \/ ServerRecordRoutes
    \/ RouterRecordRoutes

SpecIds == Init /\ [][NextIds]_vars

-----------------------------------------------------------------------------
(* Vocabulary of the scheduling properties (spec.md, sections 3 and 4.2) *)

StartOf(a) == a.startHour * 60 + a.startMinute
EndOf(a) == StartOf(a) + a.durationMinutes

\* [s1, e1) and [s2, e2) overlap iff s1 < e2 and s2 < e1
Overlap(a, b) == StartOf(a) < EndOf(b) /\ StartOf(b) < EndOf(a)
SameEmployeeAndDate(a, b) == a.employeeId = b.employeeId /\ a.date = b.date
Conflict(a, b) == SameEmployeeAndDate(a, b) /\ Overlap(a, b)

WeekdayOf(date) == CASE date = Monday -> "Mo"
DayNumber(date) == CASE date = Monday -> 3
Covers(h, date) == DayNumber(h.start) <= DayNumber(date) /\ DayNumber(date) <= DayNumber(h.end)

EmployeeExists(id) == \E n \in DOMAIN employees : ObjectIdToString(n) = id
EmployeeOf(id) == employees[CHOOSE n \in DOMAIN employees : ObjectIdToString(n) = id]

Closed == [enabled |-> FALSE, start |-> 0, end |-> 0]
DayInterval(hours, day) ==
    IF day \in DOMAIN hours /\ hours[day].enabled THEN hours[day] ELSE Closed
\* the employee's own enabled interval, else the enabled global interval
EffectiveInterval(a) ==
    LET day == WeekdayOf(a.date)
        own == DayInterval(EmployeeOf(a.employeeId).dailyHours, day)
    IN  IF own.enabled THEN own
        ELSE IF settings # <<>> THEN DayInterval(settings[1].dailyHours, day)
        ELSE Closed
OutsideWorkingHours(a) ==
    LET iv == EffectiveInterval(a) IN
    ~iv.enabled \/ StartOf(a) < iv.start * 60 \/ EndOf(a) > iv.end * 60

OnHoliday(a) ==
    \/ /\ settings # <<>>
       /\ \E i \in DOMAIN settings[1].holidays : Covers(settings[1].holidays[i], a.date)
    \/ /\ EmployeeExists(a.employeeId)
       /\ LET hs == EmployeeOf(a.employeeId).holidays IN
          \E i \in DOMAIN hs : Covers(hs[i], a.date)

\* The step in which the database call of slot r's appointment write returns.
WriteStep(r) == pending[r] # Idle /\ pending'[r] = Idle
PutTarget(r) == CastObjectId(pending[r].id)
\* Slot r's write proposes an appointment: a create, or an update of a stored one.
Proposes(r) ==
    \/ pending[r].kind = "post"
    \/ pending[r].kind = "put" /\ PutTarget(r) \in DOMAIN appointments
Proposal(r) ==
    IF pending[r].kind = "post" THEN pending[r].doc
    ELSE Merge(appointments[PutTarget(r)], pending[r].data)
Rejected == appointments' = appointments /\ lastResponse'.status \notin {200, 201}

-----------------------------------------------------------------------------
(* Claims *)

\* C1: no two stored appointments of the same employee and date have overlapping
\* half-open intervals [start, start + duration).
C1_NoOverlappingAppointments ==
    \A i, j \in DOMAIN appointments :
        i # j => ~Conflict(appointments[i], appointments[j])

\* C2: of two appointment writes processed concurrently, never both are committed
\* with overlapping intervals for the same employee and date: a write that commits
\* does not conflict with an appointment written while it was in flight.
C2_ConcurrentWritesSerialized ==
    [][\A r \in Slots :
          WriteStep(r) /\ lastResponse'.status \in {200, 201} =>
              LET k == lastResponse'.body._id IN
              \A j \in (writtenSince[r] \cap DOMAIN appointments') \ {k} :
                  ~Conflict(appointments'[j], appointments'[k])]_vars

\* C3: a create or update whose interval is not inside the effective availability
\* interval of its (existing) employee for the weekday of its date, or for which no
\* enabled interval exists, is rejected and not stored.
C3_WithinWorkingHours ==
    [][\A r \in Slots :
          (/\ WriteStep(r)
           /\ Proposes(r)
           /\ EmployeeExists(Proposal(r).employeeId)
           /\ OutsideWorkingHours(Proposal(r))) => Rejected]_vars

\* C4: a create or update whose date falls inside an interval of the global holiday
\* list or of the employee's holiday list is rejected and leaves the stored
\* appointments unchanged.
C4_HolidayRejected ==
    [][\A r \in Slots :
          (WriteStep(r) /\ Proposes(r) /\ OnHoliday(Proposal(r))) => Rejected]_vars

\* C5: a create or update naming an employee that is not in the store at that
\* moment is rejected and nothing is stored.
C5_UnknownEmployeeRejected ==
    [][\A r \in Slots :
          (WriteStep(r) /\ Proposes(r) /\ ~EmployeeExists(Proposal(r).employeeId))
              => Rejected]_vars

\* C6: every stored appointment has durationMinutes > 0 and ends no later than
\* 24:00 of its own date: startHour*60 + startMinute + durationMinutes <= 1440.
C6_ValidTimeRange ==
    \A i \in DOMAIN appointments :
        appointments[i].durationMinutes > 0 /\ EndOf(appointments[i]) <= 1440

\* The update of slot r moves a stored appointment to a range that overlaps the
\* range it has now, and conflicts with no other stored appointment.
SelfOverlapOnly(r) ==
    /\ pending[r].kind = "put"
    /\ PutTarget(r) \in DOMAIN appointments
    /\ LET old == appointments[PutTarget(r)]
           new == Proposal(r)
       IN  /\ Overlap(old, new)
           /\ \A j \in DOMAIN appointments \ {PutTarget(r)} :
                  ~Conflict(appointments[j], new)

\* C7: an update of a stored appointment A to a time range that overlaps only A's
\* own previous range is accepted with 200 and stored: A never conflicts with itself.
C7_NoSelfConflict ==
    [][\A r \in Slots :
          WriteStep(r) /\ SelfOverlapOnly(r) =>
              LET n == PutTarget(r)
                  data == pending[r].data
              IN  /\ lastResponse'.status = 200
                  /\ lastResponse'.body._id = n
                  /\ n \in DOMAIN appointments'
                  /\ \A k \in DOMAIN data \cap AppointmentPaths :
                         /\ appointments'[n][k] = data[k]
                         /\ lastResponse'.body[k] = data[k]]_vars

\* C7 witness: an update that moves a stored 10:00-11:00 appointment to 10:30-11:30,
\* overlapping only itself, awaits its database call.
C7_Witness ==
    \E r \in Slots :
        /\ SelfOverlapOnly(r)
        /\ StartOf(appointments[PutTarget(r)]) # StartOf(Proposal(r))

\* C8: after any interleaving of GET /settings and POST /settings requests the store
\* holds at most one settings document, and exactly one once a settings request
\* has been answered successfully.
C8_SingleSettingsDocument ==
    /\ Len(settings) <= 1
    /\ lastResponse.status = 200 => Len(settings) = 1

\* A step of POST /api/settings.
PostSettingsStep == \E body \in SettingsBodies : PostSettings(body)

\* C9: a GET /settings that finds no settings document persists a document equal
\* to DEFAULT_SETTINGS and answers 200 with it; a GET that reads once a document is
\* stored creates nothing and answers with the store's first document, which no
\* step but a POST changes.
C9_LazyDefaults ==
    [][\A r \in Slots :
          /\ (settingsGet[r].kind = "save" /\ settingsGet'[r] # settingsGet[r]) =>
                 /\ Len(settings') = Len(settings) + 1
                 /\ SubSeq(settings', 1, Len(settings)) = settings
                 /\ Content(settings'[Len(settings')]) = DEFAULT_SETTINGS
                 /\ settingsGet'[r] =
                        [kind |-> "respond", doc |-> settings'[Len(settings')]]
          /\ (settingsGet[r] = Idle /\ settingsGet'[r] # Idle /\ settings # <<>>) =>
                 /\ settings' = settings
                 /\ settingsGet'[r] = [kind |-> "respond", doc |-> settings[1]]
          /\ (settingsGet[r].kind = "respond" /\ settingsGet'[r] = Idle) =>
                 /\ settings' = settings
                 /\ lastResponse' = Response(200, settingsGet[r].doc)
          /\ (settings # <<>> /\ ~PostSettingsStep) => settings'[1] = settings[1]]_vars

\* C9 witness: one GET has been answered with the only stored document, which equals
\* DEFAULT_SETTINGS, and another GET that read the store is about to answer with it.
C9_Witness ==
    /\ Len(settings) = 1
    /\ Content(settings[1]) = DEFAULT_SETTINGS
    /\ lastResponse = Response(200, settings[1])
    /\ \E r \in Slots :
           /\ settingsGet[r] = [kind |-> "respond", doc |-> settings[1]]
           /\ \A q \in Slots \ {r} : settingsGet[q] = Idle

\* C10: POST /settings replaces the settings record wholesale: the stored settings
\* after a POST are determined by the request body alone (its fields, and the
\* schema's defaults for the fields it leaves out).
C10_WholesaleReplace ==
    [][\A body \in SettingsBodies :
          PostSettings(body) => Content(settings'[1]) = NewSetting(body)]_vars

\* The response of a list route carries the stored record n of store, with its fields.
Lists(body, store, n) ==
    \E i \in DOMAIN body.items :
        /\ body.items[i]._id = n
        /\ DOMAIN store[n] \subseteq DOMAIN body.items[i]
        /\ \A k \in DOMAIN store[n] : body.items[i][k] = store[n][k]

\* C11: DELETE /employees/{id} leaves the stored appointments unchanged: the step
\* that removes an employee changes no appointment, and GET /appointments returns
\* every stored appointment with its fields, whether or not its employee is stored.
C11_EmployeeDeleteKeepsAppointments ==
    [][/\ (\E n \in DOMAIN employees : n \notin DOMAIN employees') =>
              appointments' = appointments
       /\ GetAppointments =>
              \A n \in DOMAIN appointments :
                  Lists(lastResponse'.body, appointments, n)]_vars

\* C11 witness: GET /appointments has returned a stored appointment whose employee
\* was created and has been deleted.
C11_Witness ==
    /\ "items" \in DOMAIN lastResponse.body
    /\ \E n \in DOMAIN appointments :
           /\ Lists(lastResponse.body, appointments, n)
           /\ \E e \in 1..(nextEmployeeId - 1) :
                  /\ e \notin DOMAIN employees
                  /\ ObjectIdToString(e) = appointments[n].employeeId

\* An item of a list response is flagged: it carries a field beyond the schema's
\* paths and the two identifier fields.
Flagged(item) == ~(DOMAIN item \subseteq AppointmentPaths \cup {"_id", "id"})

\* C12: every appointment returned by GET /appointments whose employeeId matches no
\* stored employee is flagged as referencing a missing employee, and the others are
\* not flagged.
C12_OrphansFlagged ==
    [][GetAppointments =>
          \A i \in DOMAIN lastResponse'.body.items :
              LET item == lastResponse'.body.items[i] IN
              Flagged(item) <=> ~EmployeeExists(item.employeeId)]_vars

\* after is before without exactly the record n
RemovesExactly(before, after, n) ==
    /\ DOMAIN after = DOMAIN before \ {n}
    /\ \A x \in DOMAIN after : after[x] = before[x]

\* a DELETE of the stored employee, or appointment, with the identifier n
DeletesEmployee(n) ==
    /\ n \in DOMAIN employees
    /\ DeleteEmployee(ObjectIdToString(n))
DeletesAppointment(n) ==
    /\ n \in DOMAIN appointments
    /\ DeleteAppointment(ObjectIdToString(n))

\* C13: a DELETE of an existing employee or appointment removes exactly
\* that record and responds with status 204 and no body.
C13_DeleteResponds204 ==
    [][/\ \A n \in DOMAIN employees : DeletesEmployee(n) =>
              /\ RemovesExactly(employees, employees', n)
              /\ appointments' = appointments
              /\ lastResponse'.status = 204
              /\ DOMAIN lastResponse'.body = {}
       /\ \A n \in DOMAIN appointments : DeletesAppointment(n) =>
              /\ RemovesExactly(appointments, appointments', n)
              /\ employees' = employees
              /\ lastResponse'.status = 204
              /\ DOMAIN lastResponse'.body = {}]_vars

\* the step answers 404 and leaves every stored record as it was
NotFoundAndUnchanged ==
    /\ lastResponse'.status = 404
    /\ employees' = employees
    /\ appointments' = appointments

\* C14: for every path identifier that is not the identifier of a stored record
\* (malformed identifiers included), PUT and DELETE on /employees/{id} and
\* /appointments/{id} respond 404 and leave all stored records unchanged; a PUT
\* on an unknown identifier creates no record.
C14_UnknownIdIs404 ==
    [][/\ \A id \in EmployeePathIds :
              /\ CastObjectId(id) \notin DOMAIN employees
              /\ \/ DeleteEmployee(id)
                 \/ \E body \in EmployeePutBodies : PutEmployee(id, body)
              => NotFoundAndUnchanged
       /\ \A id \in AppointmentPathIds :
              /\ CastObjectId(id) \notin DOMAIN appointments
              /\ DeleteAppointment(id)
              => NotFoundAndUnchanged
       /\ \A r \in Slots :
              /\ PutAppointmentUpdate(r)
              /\ CastObjectId(pending[r].id) \notin DOMAIN appointments
              => NotFoundAndUnchanged]_vars

\* The 201 response body b is a record created by this step: its identifier is that
\* of no record stored before (all of them are below next), and the record is
\* stored under it with the field values of the response.
Created(b, before, after, next) ==
    /\ b._id \notin DOMAIN before
    /\ \A n \in 1..(next - 1) : n # b._id /\ ObjectIdToString(n) # b.id
    /\ b.id = ObjectIdToString(b._id)
    /\ b._id \in DOMAIN after
    /\ DOMAIN after[b._id] = DOMAIN b \ {"_id", "id"}
    /\ \A k \in DOMAIN after[b._id] : after[b._id][k] = b[k]

\* a POST answered 201 returns a record created by the step
PostReturnsCreated ==
    lastResponse'.status = 201 =>
        IF "employeeId" \in DOMAIN lastResponse'.body
        THEN Created(lastResponse'.body, appointments, appointments', nextAppointmentId)
        ELSE Created(lastResponse'.body, employees, employees', nextEmployeeId)

\* a GET of a list returns every stored record with its identifier and field values
GetReturnsStored ==
    /\ GetAppointments =>
           \A n \in DOMAIN appointments : Lists(lastResponse'.body, appointments, n)
    /\ GetEmployees =>
           \A n \in DOMAIN employees : Lists(lastResponse'.body, employees, n)

\* the step is a DELETE, or a PUT, of the stored employee or appointment n
TouchesEmployee(n) ==
    \/ DeleteEmployee(ObjectIdToString(n))
    \/ \E body \in EmployeePutBodies : PutEmployee(ObjectIdToString(n), body)
TouchesAppointment(n) ==
    \/ DeleteAppointment(ObjectIdToString(n))
    \/ \E r \in Slots : PutAppointmentUpdate(r) /\ PutTarget(r) = n

\* C15: a POST answered 201 returns the created record with an identifier distinct
\* from those of all records of that kind stored before, and a later GET of the
\* list, with no delete in between, contains a record with that identifier and the
\* same field values: a step that deletes no record keeps the values of every
\* stored record.
C15_CreatedThenListed ==
    [][/\ PostReturnsCreated
       /\ GetReturnsStored
       /\ DOMAIN employees \subseteq DOMAIN employees' =>
              \A n \in DOMAIN employees : employees'[n] = employees[n]
       /\ DOMAIN appointments \subseteq DOMAIN appointments' =>
              \A n \in DOMAIN appointments : appointments'[n] = appointments[n]]_vars

\* C15 amended: as C15, for a later GET with no delete and no update of that record
\* in between: a step that is neither a DELETE nor a PUT of a stored record keeps
\* it stored with its values.
C15_CreatedThenListedUnlessWritten ==
    [][/\ PostReturnsCreated
       /\ GetReturnsStored
       /\ \A n \in DOMAIN employees :
              \/ TouchesEmployee(n)
              \/ n \in DOMAIN employees' /\ employees'[n] = employees[n]
       /\ \A n \in DOMAIN appointments :
              \/ TouchesAppointment(n)
              \/ n \in DOMAIN appointments' /\ appointments'[n] = appointments[n]]_vars

\* C15 witness: two appointments were created and a GET of the list has returned
\* both with their identifiers and stored values.
C15_Witness ==
    /\ "items" \in DOMAIN lastResponse.body
    /\ Len(lastResponse.body.items) = 2
    /\ DOMAIN appointments = {1, 2}
    /\ \A n \in {1, 2} : lastResponse.body.items[n] = WithId(appointments[n], n)

\* C16: whenever the storage layer fails during an API operation, the response has
\* a 5xx status, never a 2xx and never a 4xx one.
C16_StorageFailureIs5xx ==
    [][StorageFailure => lastResponse'.status \in 500..599]_vars

\* C17: a response with a success status to a create or an update is sent only
\* after the write is persisted: whenever the last response is a 2xx response
\* carrying a record, that record is stored with the values of the response.
C17_SuccessAfterPersisted ==
    LET b == lastResponse.body IN
    lastResponse.status \in 200..299 /\ "_id" \in DOMAIN b =>
        IF "employeeId" \in DOMAIN b
        THEN b._id \in DOMAIN appointments /\ WithId(appointments[b._id], b._id) = b
        ELSE b._id \in DOMAIN employees /\ WithId(employees[b._id], b._id) = b

\* C17 witness: POST /appointments has been answered 201 and the record of the
\* response is stored.
C17_Witness ==
    /\ lastResponse.status = 201
    /\ "employeeId" \in DOMAIN lastResponse.body
    /\ lastResponse.body._id \in DOMAIN appointments

\* the step in which a create or an update request is answered
CreateOrUpdateResponds ==
    \/ \E body \in EmployeePostBodies : PostEmployee(body)
    \/ \E id \in EmployeePathIds, body \in EmployeePutBodies : PutEmployee(id, body)
    \/ PostEmployeeFails
    \/ PutEmployeeFails
    \/ \E r \in Slots : \/ PostAppointmentSave(r)
                        \/ PutAppointmentUpdate(r)
                        \/ AppointmentWriteFails(r)

\* C18: whenever a create or an update request ends with an error response
\* (validation or storage failure), the stored employees, appointments and
\* settings are exactly what they were before.
C18_ErrorLeavesStoreUnchanged ==
    [][CreateOrUpdateResponds /\ lastResponse'.status \in 400..599 =>
          /\ employees' = employees
          /\ appointments' = appointments
          /\ settings' = settings]_vars

\* C18 witness: an update of an appointment has been answered 400 while
\* appointments are stored.
C18_Witness ==
    /\ lastResponse = Response(400, Message("Fehler beim Aktualisieren des Termins."))
    /\ appointments # EmptyObject

\* slot r's handler ends, or goes on to its next await, in the step
HandlerEnds(r) ==
    \/ pending[r] # Idle /\ pending'[r] = Idle
    \/ settingsGet[r] # Idle /\ settingsGet'[r] = Idle
HandlerGoesOn(r) ==
    \/ pending'[r] # Idle /\ pending'[r] # pending[r]
    \/ settingsGet'[r] # Idle /\ settingsGet'[r] # settingsGet[r]

C20_NotConnectedIs503 ==
    [][(GuardedRequest \/ PlaceholderRequest) /\ readyState # 1 =>
          /\ lastResponse' = NotConnected
          /\ employees' = employees
          /\ appointments' = appointments]_vars

\* C21: employee seeding is a one-time operation: however many connections are
\* established and however the runs of the initialisation interleave, the
\* collection never holds two records with one seed id, and no step of the
\* initialisation changes a collection that is not empty.
C21_SeedingOnce ==
    [][/\ ~DuplicateId(employees')
       /\ Seeding /\ employees # EmptyObject => employees' = employees]_vars

\* the outcome the statement of C22 gives a POST /api/events with this body
SolelyById(body) ==
    IF "_id" \in DOMAIN body
    THEN IF CastObjectId(body._id) \in DOMAIN events
         THEN /\ lastResponse'.status = 200
              /\ DOMAIN events' = DOMAIN events
         ELSE /\ lastResponse'.status = 404
              /\ events' = events
    ELSE /\ lastResponse'.status = 201
         /\ Cardinality(DOMAIN events') = Cardinality(DOMAIN events) + 1

\* C22 (as stated): POST /api/events decides by the presence of _id alone: an _id of
\* a stored event updates it and is answered 200, an _id of no stored event is
\* answered 404 and leaves the events as they are, no _id creates exactly one
\* event and is answered 201.
C22_UpdateOrCreateById ==
    [][\A body \in EventPostBodies : PostEvent(body) => SolelyById(body)]_vars

\* the request is answered 400 and the events are as they were
EventRejected ==
    /\ lastResponse'.status = 400
    /\ events' = events

\* the stored event n now has the body's values on the schema paths of the body,
\* and no other event has changed
EventUpdated(n, body) ==
    /\ DOMAIN events' = DOMAIN events
    /\ \A m \in DOMAIN events \ {n} : events'[m] = events[m]
    /\ \A k \in DOMAIN events'[n] :
           events'[n][k] = IF k \in DOMAIN body THEN body[k] ELSE events[n][k]
    /\ lastResponse' = Response(200, Put(events'[n], "_id", n))

\* exactly one event is new, with the body's values, and the old ones are as they were
EventCreated(body) ==
    \E n \in DOMAIN events' \ DOMAIN events :
        /\ DOMAIN events' = DOMAIN events \cup {n}
        /\ \A m \in DOMAIN events : events'[m] = events[m]
        /\ \A k \in EventPaths : events'[n][k] = body[k]
        /\ lastResponse' = Response(201, Put(events'[n], "_id", n))

\* C22 (amended): a body with an _id never creates: with a malformed _id or a
\* value that fails a validator it is answered 400 and nothing changes, else with
\* the _id of a stored event that event is updated and the answer is 200, else
\* the answer is 404 and nothing changes.  A body without an _id creates exactly
\* one event and is answered 201 if it has every required field, and is answered
\* 400 with nothing created if not.
C22_UpdateOrCreateByIdWhenValid ==
    [][\A body \in EventPostBodies : PostEvent(body) =>
         IF "_id" \in DOMAIN body
         THEN IF \/ CastObjectId(body._id) = 0
                 \/ \E k \in DOMAIN body \cap EventPaths : body[k] = ""
              THEN EventRejected
              ELSE IF CastObjectId(body._id) \in DOMAIN events
              THEN EventUpdated(CastObjectId(body._id), body)
              ELSE lastResponse'.status = 404 /\ events' = events
         ELSE IF \A k \in EventPaths : k \in DOMAIN body /\ body[k] # ""
              THEN EventCreated(body)
              ELSE EventRejected]_vars

\* an update named an _id that matches no stored event, while another event is
\* stored, and was answered 404
C22_Witness ==
    /\ lastResponse = Response(404, Message("Event zur Aktualisierung nicht gefunden"))
    /\ events # EmptyObject
    /\ nextEventId > 1

\* C23: in the variant that synchronises the title, after any sequence of POST and
\* PUT requests on /api/appointments whose bodies include customerName, the title
\* of every stored appointment is its customerName, whatever title the client sent.
C23_TitleIsCustomerName ==
    \A n \in DOMAIN appointments : appointments[n].title = appointments[n].customerName

\* an update that came with the title "Cut" and another customerName has been
\* applied and answered 200
C23_Witness ==
    /\ lastResponse.status = 200
    /\ "customerName" \in DOMAIN lastResponse.body
    /\ lastResponse.body.customerName = "Lee"
    /\ lastResponse.body.startHour = 10
    /\ \E n \in DOMAIN appointments : appointments[n].title = "Lee"

\* the records of a response body: the items of a list, or the one record
Returned(body) ==
    IF "items" \in DOMAIN body THEN {body.items[i] : i \in DOMAIN body.items}
    ELSE IF "message" \in DOMAIN body THEN {}
    ELSE {body}

\* the collection a returned record is of
StoreOf(rec) == IF "firstName" \in DOMAIN rec THEN employees ELSE appointments

\* C24: every employee and appointment record that a list, create or update route
\* returns has an id that is the string form of its stored _id, whatever id the
\* request body carried, and that id, as the path of a PUT or DELETE, addresses
\* the stored record the response shows.
C24_IdIsStoredId ==
    lastResponse.status \in {200, 201} =>
        \A rec \in Returned(lastResponse.body) :
            /\ "id" \in DOMAIN rec
            /\ rec.id = ObjectIdToString(rec._id)
            /\ CastObjectId(rec.id) \in DOMAIN StoreOf(rec)
            /\ WithId(StoreOf(rec)[CastObjectId(rec.id)], CastObjectId(rec.id)) = rec

\* a create whose body carried an id of the client's own has been answered 201
\* with the record stored first in its collection
C24_Witness ==
    /\ lastResponse.status = 201
    /\ lastResponse.body.id = ObjectIdToString(1)
    /\ nextEmployeeId + nextAppointmentId > 2

====
